---- MODULE Spec2Model ----
(***************************************************************************)
(* pgd: project-scoped PostgreSQL instance manager.                        *)
(*                                                                         *)
(* A model of the reconciliation engine (src/src/controller/reconciler.rs) *)
(* together with the instance ledger (src/src/state.rs), the version type  *)
(* (src/src/config.rs) and the container runtime it talks to               *)
(* (src/src/controller/docker.rs).                                         *)
(*                                                                         *)
(* One command invocation runs at a time.  Every call to the daemon is an  *)
(* await point of the async code, so each one is a step of its own, and    *)
(* the daemon's other clients (a container that exits, a container that    *)
(* somebody removes) act between the steps.  The process may be killed at  *)
(* any step.                                                               *)
(*                                                                         *)
(* Specifications: Spec (invocations one after another, version edits),    *)
(* SpecDrift (the drift decision over many version pairs), SpecEnv (port   *)
(* edits and image removals), SpecRace (two invocations interleaved),      *)
(* SpecPort (the port allocator alone), SpecLedger (StateManager alone).   *)
(*                                                                         *)
(* ctx.instance is the ledger record of the project as loaded when the     *)
(* command starts (the lookup of controller.rs:472-473), ctx.state the     *)
(* ledger loaded then.  created_at, a reading of the wall clock that no    *)
(* decision reads, is left out of the record.                              *)
(***************************************************************************)
EXTENDS Integers, Sequences, FiniteSets, TLC

\* ------------------------------------------------------------- bounds
\* Container ids the daemon hands out: 1..MaxContainers, each at most once.
MaxContainers == 2

\* ---------------------------------------------------------- constants
MAX_RETRIES == 10
VERIFY_DURATION_SECS == 5

Projects == {"a", "b"}

\* PostgresVersion values the configuration may name.  16.11 and 16.2
\* differ in the minor part only, and as strings "16.11" < "16.2".
Ver(ma, mi) == [major |-> ma, minor |-> mi]
Versions == {Ver(16, 2), Ver(16, 11)}

Ports == {5432}
Passwords == {"pw"}

\* ------------------------------------------------------ PostgresVersion
\* The decimal digits of n, and the order of texts (a "." is -1: it sorts
\* before every digit).
RECURSIVE Digits(_)
Digits(n) == IF n < 10 THEN <<n>> ELSE Digits(n \div 10) \o <<n % 10>>
Text(v) == Digits(v.major) \o <<-1>> \o Digits(v.minor)
TextLt(s, t) ==
    \E i \in 1..Len(t) :
        /\ i - 1 <= Len(s)
        /\ \A j \in 1..(i - 1) : s[j] = t[j]
        /\ \/ i = Len(s) + 1
           \/ i <= Len(s) /\ s[i] < t[i]

\* Versions compared as the strings the ledger and the label hold.
VersionLtText(x, y) == TextLt(Text(x), Text(y))

\* derive(PartialOrd, Ord) on struct { major, minor }: the fields are
\* compared in declaration order, as integers.
VersionLt(x, y) ==
    \/ x.major < y.major
    \/ x.major = y.major /\ x.minor < y.minor

\* Display: "{major}.{minor}", as the text's characters: the decimal
\* digits of both numbers around a "." (-1).
to_string(v) == Digits(v.major) \o <<-1>> \o Digits(v.minor)

\* str::split_once("."): the text before and after the first ".", or
\* nothing if there is none.
split_once(s) ==
    IF \E i \in 1..Len(s) : s[i] = -1
    THEN LET i == CHOOSE k \in 1..Len(s) :
                      s[k] = -1 /\ \A j \in 1..(k - 1) : s[j] # -1 IN
         <<SubSeq(s, 1, i - 1), SubSeq(s, i + 1, Len(s))>>
    ELSE <<>>

\* str::parse::<u32>: a non-empty run of decimal digits is its number.
parse_ok(d) == Len(d) > 0 /\ \A i \in 1..Len(d) : d[i] \in 0..9
RECURSIVE parse(_)
parse(d) ==
    IF Len(d) = 0 THEN 0 ELSE parse(SubSeq(d, 1, Len(d) - 1)) * 10 + d[Len(d)]

\* FromStr succeeds: two fragments, both numbers.
from_str_ok(s) ==
    LET f == split_once(s) IN
    f # <<>> /\ parse_ok(f[1]) /\ parse_ok(f[2])

\* The minor fragment is dropped.
from_str_major_only(s) == [major |-> parse(split_once(s)[1]), minor |-> 0]

\* FromStr: split once at ".", parse both fragments as integers.
from_str(s) ==
    LET f == split_once(s) IN [major |-> parse(f[1]), minor |-> parse(f[2])]

\* Project::container_name: "pgd-{name}-{version with . replaced by _}".
container_name(name, v) == <<"pgd", name, to_string(v)>>

\* ------------------------------------------------------------ helpers
Insert(f, k, v) == [x \in DOMAIN f \cup {k} |-> IF x = k THEN v ELSE f[x]]
Without(f, k) == [x \in DOMAIN f \ {k} |-> f[x]]
EmptyMap == [x \in {} |-> 0]

\* ------------------------------------------------------------- results
NoResult == [ok |-> FALSE, kind |-> "none", args |-> <<>>]
Ok == [ok |-> TRUE, kind |-> "ok", args |-> <<>>]
\* An error: its kind and the values formatted into its message.
Err(kind, args) == [ok |-> FALSE, kind |-> kind, args |-> args]

\* ---------------------------------------------------------------- state
VARIABLES
    \* the world outside the process
    config,         \* pgd.toml of each project: version, password, port
    file,           \* ~/.pgx/state.json: absent, partial, or a document
    containers,     \* the daemon's containers, by id
    nextId,         \* the next id the daemon hands out
    images,         \* versions whose image is present locally
    \* the running invocation
    pc,             \* where the invocation is
    project,        \* ctx.project: {} or {the loaded Project}
    instance,       \* ctx.instance: {} or {the ledger record found at start}
    state,          \* ctx.state: the in-memory ledger
    id,             \* update_project_container's id (0: not yet)
    container_id,   \* ensure_container_running's container_id (0: not yet)
    container_version, \* the version read from the label: {} or {v}
    attempt,        \* the retry loop's attempt
    result,         \* what the invocation returned
    \* what the invocation has done so far (history, read by no action)
    calls,          \* how many calls of each kind it has issued
    verified,       \* ids found to exist, or created, in this invocation
    queried,        \* ids a version read, running inspect or start was issued on
    created,        \* ids create_container returned in this invocation
    answered,       \* the last answer to a running inspect: "none", "yes",
                    \* "no", "not_found" (404) or "error" (any other error)
    fileAtBegin,    \* the ledger file as it was when the invocation began
    \* beside the running invocation
    parked,         \* a second invocation, while the first one runs
    listening,      \* the ports of 127.0.0.1 that have a listener
    lastSet         \* per project name, the record of the most recent set
                    \* not followed by a remove: {} or {record} (history)

world == <<config, file, containers, nextId, images>>
local == <<pc, project, instance, state, id, container_id,
           container_version, attempt, result>>
history == <<calls, verified, queried, created, answered, fileAtBegin>>
beside == <<parked, listening, lastSet>>
vars == <<world, local, history, beside>>

\* create, save, start, sleep, list, pull: calls issued (saved: saves that
\* completed); exists, version, running: the three checks before the loop;
\* probe: connectivity probes at construction; init: pgd.toml files
\* written by init_project; waited, inspected: the seconds of verification
\* wait and the running inspects of the latest start attempt.
NoCalls == [create |-> 0, start |-> 0, save |-> 0, saved |-> 0, sleep |-> 0,
            exists |-> 0, version |-> 0, running |-> 0, pull |-> 0,
            list |-> 0, probe |-> 0, init |-> 0, waited |-> 0,
            inspected |-> 0]

AbsentFile == [kind |-> "absent", instances |-> EmptyMap]
PartialFile == [kind |-> "partial", instances |-> EmptyMap]
Document(m) == [kind |-> "doc", instances |-> m]

\* InstanceState::new as the reconciler calls it (id, version, port).
InstanceState(cid, v, port) ==
    [container_id |-> cid, postgres_version |-> v, port |-> port]

\* An invocation that has not begun: the variables of `local` and
\* `history` as a record.
Nobody ==
    [pc |-> "idle", project |-> {}, instance |-> {}, state |-> EmptyMap,
     id |-> 0, container_id |-> 0, container_version |-> {}, attempt |-> 0,
     result |-> NoResult, calls |-> NoCalls, verified |-> {}, queried |-> {},
     created |-> {}, answered |-> "none", fileAtBegin |-> AbsentFile]

\* No name has been set.
NoneSet == [q \in Projects |-> {}]

Init ==
    /\ config \in [Projects -> [version : {Ver(16, 2)}, password : Passwords,
                                port : Ports]]
    /\ file = AbsentFile
    /\ containers = EmptyMap
    /\ nextId = 1
    /\ images = {}
    /\ pc = "idle"
    /\ project = {}
    /\ instance = {}
    /\ state = EmptyMap
    /\ id = 0
    /\ container_id = 0
    /\ container_version = {}
    /\ attempt = 0
    /\ result = NoResult
    /\ calls = NoCalls
    /\ verified = {}
    /\ queried = {}
    /\ created = {}
    /\ answered = "none"
    /\ fileAtBegin = AbsentFile
    /\ parked = Nobody
    /\ listening = {}
    /\ lastSet = NoneSet

TheProject == CHOOSE p \in project : TRUE
TheInstance == CHOOSE i \in instance : TRUE

\* The invocation ends with result r.
Return(r) == pc' = "done" /\ result' = r

\* ------------------------------------------------------- the ledger
\* A record as the JSON document holds it, and back: the version is the
\* text "MAJOR.MINOR" in the document.
serialize(rec) ==
    [container_id |-> rec.container_id,
     postgres_version |-> to_string(rec.postgres_version),
     port |-> rec.port]
deserialize(obj) ==
    [container_id |-> obj.container_id,
     postgres_version |-> from_str(obj.postgres_version),
     port |-> obj.port]

\* StateManager::load: no file, an empty ledger; a file that does not
\* parse, an error.
load_ok(f) == f.kind # "partial"
load(f) == [q \in DOMAIN f.instances |-> deserialize(f.instances[q])]

\* The file is read although it is missing.
load_error_reading_missing(f) ==
    IF f.kind = "partial"
    THEN {Err("read", <<>>), Err("parse", <<>>)}
    ELSE {Err("read", <<>>)}

\* The errors load can return: with no file, that of create_dir_all on
\* ~/.pgx; with a file, that of reading it and, for a file that is not a
\* whole document, that of parsing it.
load_error(f) ==
    IF f.kind = "absent" THEN {Err("mkdir", <<>>)}
    ELSE IF f.kind = "partial"
         THEN {Err("read", <<>>), Err("parse", <<>>)}
         ELSE {Err("read", <<>>)}

\* StateManager::get
get(m, name) == IF name \in DOMAIN m THEN {m[name]} ELSE {}

\* The record goes into a copy of the ledger and is lost.
upsert_on_copy(m, name, rec) == m

\* Insert only: a project that has a record keeps it.
upsert_or_insert(m, name, rec) ==
    IF name \in DOMAIN m THEN m ELSE Insert(m, name, rec)

\* The ledger's insert-or-replace of one project's record.
upsert(m, name, rec) == Insert(m, name, rec)

\* A document whose instances field is not serialised.
save_skipping_instances(m) == Document(EmptyMap)

\* StateManager::remove
remove(m, name) == Without(m, name)

\* StateManager::save writes the whole in-memory ledger as one document.
save(m) == Document([q \in DOMAIN m |-> serialize(m[q])])

\* ------------------------------------------------------ the runtime
\* inspect_container answers 404 for an id the daemon does not have.
Exists(cid) == cid \in DOMAIN containers

\* container_exists_by_id: 404 is a plain "no".
container_exists_by_id(cid) == Exists(cid)

\* is_container_running_by_id: state.running of the inspected container.
is_container_running_by_id(cid) == containers[cid].running

\* get_container_postgres_version: the label, parsed back.
get_container_postgres_version(cid) == from_str(containers[cid].label)

\* The container create_postgres_container asks the daemon for.
NewContainer(name, v, password, port) ==
    [name |-> name, label |-> to_string(v), password |-> password,
     port |-> port, running |-> FALSE]

\* The daemon refuses a second container of the same name.
NameTaken(name) == \E c \in DOMAIN containers : containers[c].name = name

\* ------------------------------------------------------ the reconciler
\* Any version label is accepted.
ensure_matches_any_version(desired, actual) == Ok

\* The comparison is made without the test for inequality: an equal
\* version is answered as a downgrade.
ensure_matches_unguarded(desired, actual) ==
    IF VersionLt(actual, desired)
    THEN Err("upgrade", <<>>)
    ELSE Err("downgrade", <<to_string(actual), to_string(desired)>>)

\* ensure_matches_project_version: the drift decision.
ensure_matches_project_version(desired, actual) ==
    IF actual # desired
    THEN IF VersionLt(actual, desired)
         THEN Err("upgrade", <<>>)
         ELSE Err("downgrade", <<to_string(actual), to_string(desired)>>)
    ELSE Ok

\* The client is built without a probe: connect_with_local_defaults
\* opens no connection, so an unreachable daemon goes unnoticed.
connect_lazy(reachable) == [result |-> Ok, probes |-> 0]

\* DockerController::new: the client is built and one list_images call
\* probes the daemon; an unreachable daemon fails the construction.
connect(reachable) ==
    [result |-> IF reachable THEN Ok ELSE Err("connect", <<>>), probes |-> 1]

\* An invocation starts for project p with configuration cfg: the daemon
\* is probed, then the ledger is read and the project's record is looked
\* up.  `written` is the number of pgd.toml files written on the way.
BeginWith(p, cfg, written) ==
    /\ pc = "idle"
    /\ fileAtBegin' = file
    /\ verified' = {} /\ queried' = {} /\ created' = {}
    /\ answered' = "none"
    /\ \E reachable \in BOOLEAN :
        LET c == connect(reachable) IN
        \/ /\ ~c.result.ok
           /\ Return(c.result)
           /\ calls' = [NoCalls EXCEPT !.probe = c.probes]
           /\ UNCHANGED <<project, instance, state>>
        \/ /\ c.result.ok
           /\ \E e \in load_error(file) : Return(e)
           /\ calls' = [NoCalls EXCEPT !.probe = c.probes]
           /\ UNCHANGED <<project, instance, state>>
        \/ /\ c.result.ok
           /\ load_ok(file)
           /\ project' = {[name |-> p, config |-> cfg]}
           /\ state' = load(file)
           /\ instance' = get(load(file), p)
           /\ pc' = "reconcile"
           /\ calls' = [NoCalls EXCEPT !.probe = c.probes, !.init = written]
           /\ UNCHANGED result
    /\ UNCHANGED <<file, containers, nextId, images>>
    /\ UNCHANGED <<id, container_id, container_version, attempt>>
    /\ UNCHANGED beside

\* An invocation starts in a directory that has a pgd.toml.
Begin(p) ==
    /\ p \in DOMAIN config
    /\ BeginWith(p, config[p], 0)
    /\ UNCHANGED config

\* Every image counts as downloaded: nothing is ever pulled.
is_downloaded_always(installed, desired) == TRUE

\* No local image is ever recognised: every call pulls.
is_downloaded_never(installed, desired) == FALSE

\* ensure_version_downloaded, is_downloaded: some local image carries the
\* tag of the desired version.
is_downloaded(installed, desired) == desired \in installed

\* reconcile, first half: ensure_version_downloaded.
ensure_version_downloaded ==
    /\ pc = "reconcile"
    /\ LET v == TheProject.config.version IN
       \/ /\ Return(Err("list_images", <<>>))
          /\ calls' = [calls EXCEPT !.list = @ + 1]
          /\ UNCHANGED images
       \/ /\ is_downloaded(images, v)
          /\ pc' = "resolve"
          /\ calls' = [calls EXCEPT !.list = @ + 1]
          /\ UNCHANGED <<images, result>>
       \/ /\ ~is_downloaded(images, v)
          /\ calls' = [calls EXCEPT !.list = @ + 1, !.pull = @ + 1]
          /\ \/ images' = images \cup {v} /\ pc' = "resolve"
                /\ UNCHANGED result
             \/ Return(Err("download", <<>>)) /\ UNCHANGED images
    /\ UNCHANGED <<config, file, containers, nextId>>
    /\ UNCHANGED <<project, instance, state, id, container_id,
                   container_version, attempt>>
    /\ UNCHANGED <<verified, queried, created, answered, fileAtBegin>>
    /\ UNCHANGED beside

\* The found id is never handed back: every call provisions anew.
ensure_container_exists_none(found, cid) == {}

\* The recorded id is handed back whether or not it was found.
ensure_container_exists_trusting(found, cid) == {cid}

\* ensure_container_exists: Some(id) if the recorded id was found.
ensure_container_exists(found, cid) == IF found THEN {cid} ELSE {}

\* ensure_container_running, the match on ctx.instance: a record whose
\* container exists gives the container id, anything else a new container.
resolve_container ==
    /\ pc = "resolve"
    /\ \/ /\ instance = {}
          /\ pc' = "create"
          /\ UNCHANGED <<result, container_id, calls, verified>>
       \/ /\ instance # {}
          /\ calls' = [calls EXCEPT !.exists = @ + 1]
          /\ \/ /\ Return(Err("inspect", <<>>))
                /\ UNCHANGED <<container_id, verified>>
             \/ LET cid == TheInstance.container_id
                    found == container_exists_by_id(cid)
                    got == ensure_container_exists(found, cid) IN
                /\ verified' = IF found THEN verified \cup {cid} ELSE verified
                /\ IF got # {}
                   THEN /\ container_id' = CHOOSE x \in got : TRUE
                        /\ pc' = "version"
                   ELSE /\ pc' = "create"
                        /\ UNCHANGED container_id
                /\ UNCHANGED result
    /\ UNCHANGED world
    /\ UNCHANGED <<project, instance, state, id, container_version, attempt>>
    /\ UNCHANGED <<queried, created, answered, fileAtBegin>>
    /\ UNCHANGED beside

\* update_project_container, up to the upsert: create_postgres_container,
\* then the new record goes into the in-memory ledger.
create_postgres_container ==
    /\ pc = "create"
    /\ calls' = [calls EXCEPT !.create = @ + 1]
    /\ LET p == TheProject
           name == container_name(p.name, p.config.version) IN
       \/ /\ Return(Err("create", <<>>))
          /\ UNCHANGED <<containers, nextId, state, id, verified, created>>
       \/ /\ ~NameTaken(name)
          /\ nextId <= MaxContainers
          /\ containers' = Insert(containers, nextId,
                 NewContainer(name, p.config.version, p.config.password,
                              p.config.port))
          /\ nextId' = nextId + 1
          /\ id' = nextId
          /\ state' = upsert(state, p.name,
                 InstanceState(nextId, p.config.version, p.config.port))
          /\ verified' = verified \cup {nextId}
          /\ created' = created \cup {nextId}
          /\ pc' = "save"
          /\ UNCHANGED result
    /\ UNCHANGED <<config, file, images>>
    /\ UNCHANGED <<project, instance, container_id, container_version,
                   attempt>>
    /\ UNCHANGED <<queried, answered, fileAtBegin>>
    /\ UNCHANGED beside

\* update_project_container, the rest: state.save()?, then Ok(id).
update_project_container ==
    /\ pc = "save"
    /\ \/ /\ file' = save(state)
          /\ calls' = [calls EXCEPT !.save = @ + 1, !.saved = @ + 1]
          /\ container_id' = id
          /\ pc' = "version"
          /\ UNCHANGED result
       \/ /\ file' \in {file, PartialFile}
          /\ calls' = [calls EXCEPT !.save = @ + 1]
          /\ Return(Err("save", <<>>))
          /\ UNCHANGED container_id
    /\ UNCHANGED <<config, containers, nextId, images>>
    /\ UNCHANGED <<project, instance, state, id, container_version, attempt>>
    /\ UNCHANGED <<verified, queried, created, answered, fileAtBegin>>
    /\ UNCHANGED beside

\* The version label is read and compared with the configured version.
\* The inspect's error, a 404 included, is the call's error.
check_version ==
    /\ pc = "version"
    /\ calls' = [calls EXCEPT !.version = @ + 1]
    /\ queried' = queried \cup {container_id}
    /\ \/ /\ Return(Err("inspect", <<>>))
          /\ UNCHANGED container_version
       \/ /\ ~Exists(container_id)
          /\ Return(Err("not_found", <<>>))
          /\ UNCHANGED container_version
       \/ /\ Exists(container_id)
          /\ LET actual == get_container_postgres_version(container_id)
                 r == ensure_matches_project_version(
                          TheProject.config.version, actual) IN
             /\ container_version' = {actual}
             /\ IF r.ok
                THEN pc' = "running" /\ UNCHANGED result
                ELSE Return(r)
    /\ UNCHANGED world
    /\ UNCHANGED <<project, instance, state, id, container_id, attempt>>
    /\ UNCHANGED <<verified, created, answered, fileAtBegin>>
    /\ UNCHANGED beside

\* The running check before the loop.  The inspect's error, a 404
\* included, is the call's error.
check_running ==
    /\ pc = "running"
    /\ calls' = [calls EXCEPT !.running = @ + 1]
    /\ queried' = queried \cup {container_id}
    /\ \/ /\ Return(Err("inspect", <<>>))
          /\ UNCHANGED <<attempt, answered>>
       \/ /\ ~Exists(container_id)
          /\ Return(Err("not_found", <<>>))
          /\ answered' = "not_found"
          /\ UNCHANGED attempt
       \/ /\ Exists(container_id)
          /\ is_container_running_by_id(container_id)
          /\ answered' = "yes"
          /\ Return(Ok)
          /\ UNCHANGED attempt
       \/ /\ Exists(container_id)
          /\ ~is_container_running_by_id(container_id)
          /\ answered' = "no"
          /\ attempt' = 1
          /\ pc' = "start"
          /\ UNCHANGED result
    /\ UNCHANGED world
    /\ UNCHANGED <<project, instance, state, id, container_id,
                   container_version>>
    /\ UNCHANGED <<verified, created, fileAtBegin>>
    /\ UNCHANGED beside

\* One attempt too many: the bound is tested with <=.
AttemptFailed_off_by_one ==
    IF attempt <= MAX_RETRIES
    THEN pc' = "sleep" /\ UNCHANGED result
    ELSE Return(Err("exhausted", <<MAX_RETRIES>>))

\* The loop has no bound: a failed attempt is always followed by another.
AttemptFailed_unbounded == pc' = "sleep" /\ UNCHANGED result

\* The loop after a failed attempt: sleep if attempts remain, else leave
\* the loop and bail.
AttemptFailed ==
    IF attempt < MAX_RETRIES
    THEN pc' = "sleep" /\ UNCHANGED result
    ELSE Return(Err("exhausted", <<MAX_RETRIES>>))

\* Ok leaves the loop with break and falls into the bail after it.
loop_step_break(ok) ==
    IF ok THEN Return(Err("exhausted", <<MAX_RETRIES>>)) ELSE AttemptFailed

\* The loop's match on the attempt's result: Ok returns, Err goes on.
loop_step(ok) == IF ok THEN Return(Ok) ELSE AttemptFailed

\* The verification window is skipped.
verification_wait_skipped(started) == 0

\* try_starting_container, the match on the start call's result: Ok waits
\* VERIFY_DURATION_SECS one-second sleeps, Err bails at once.
verification_wait(started) == IF started THEN VERIFY_DURATION_SECS ELSE 0

\* try_starting_container: the start call.
start_container_by_id ==
    /\ pc = "start"
    /\ calls' = [calls EXCEPT !.start = @ + 1,
                              !.waited = verification_wait(FALSE),
                              !.inspected = 0]
    /\ queried' = queried \cup {container_id}
    /\ \/ /\ Exists(container_id)
          /\ containers' = [containers EXCEPT ![container_id].running = TRUE]
          /\ pc' = "verify"
          /\ UNCHANGED result
       \/ /\ loop_step(FALSE)
          /\ UNCHANGED containers
    /\ UNCHANGED <<config, file, nextId, images>>
    /\ UNCHANGED <<project, instance, state, id, container_id,
                   container_version, attempt>>
    /\ UNCHANGED <<verified, created, answered, fileAtBegin>>
    /\ UNCHANGED beside

\* try_starting_container after a successful start: the verification
\* window of VERIFY_DURATION_SECS one-second sleeps, during which the
\* container may exit or be removed, then one running inspect.  The
\* inspect's error, a 404 or any other, leaves try_starting_container
\* through `?` and is the attempt's error.
verify_running ==
    /\ pc = "verify"
    /\ queried' = queried \cup {container_id}
    /\ \/ /\ Exists(container_id)
          /\ answered' = IF is_container_running_by_id(container_id)
                         THEN "yes" ELSE "no"
          /\ loop_step(is_container_running_by_id(container_id))
       \/ /\ ~Exists(container_id)
          /\ answered' = "not_found"
          /\ loop_step(FALSE)
       \/ /\ answered' = "error"
          /\ loop_step(FALSE)
    /\ UNCHANGED world
    /\ calls' = [calls EXCEPT !.waited = verification_wait(TRUE),
                              !.inspected = @ + 1]
    /\ UNCHANGED <<project, instance, state, id, container_id,
                   container_version, attempt>>
    /\ UNCHANGED <<verified, created, fileAtBegin>>
    /\ UNCHANGED beside

\* The one-second delay between two attempts.
sleep ==
    /\ pc = "sleep"
    /\ calls' = [calls EXCEPT !.sleep = @ + 1]
    /\ attempt' = attempt + 1
    /\ pc' = "start"
    /\ UNCHANGED world
    /\ UNCHANGED <<project, instance, state, id, container_id,
                   container_version, result>>
    /\ UNCHANGED <<verified, queried, created, answered, fileAtBegin>>
    /\ UNCHANGED beside

\* The process is gone; nothing of it remains but the world.
Gone ==
    /\ pc' = "idle"
    /\ project' = {} /\ instance' = {} /\ state' = EmptyMap
    /\ id' = 0 /\ container_id' = 0 /\ container_version' = {}
    /\ attempt' = 0 /\ result' = NoResult
    /\ calls' = NoCalls /\ verified' = {} /\ queried' = {} /\ created' = {}
    /\ answered' = "none"
    /\ fileAtBegin' = AbsentFile

\* The process is killed.  Killed inside save, the file is what it was
\* or a truncated document.
Crash ==
    /\ pc \notin {"idle", "done"}
    /\ Gone
    /\ IF pc = "save" THEN file' \in {file, PartialFile} ELSE UNCHANGED file
    /\ UNCHANGED <<config, containers, nextId, images>>
    /\ UNCHANGED beside

\* The command has returned and the process exits.
Exit ==
    /\ pc = "done"
    /\ Gone
    /\ UNCHANGED world
    /\ UNCHANGED beside

\* ----------------------------------------------------- the environment
\* A container's process exits.
ContainerExits(c) ==
    /\ Exists(c) /\ containers[c].running
    /\ containers' = [containers EXCEPT ![c].running = FALSE]
    /\ UNCHANGED <<config, file, nextId, images>>
    /\ UNCHANGED <<local, history>>
    /\ UNCHANGED beside

\* Another client of the daemon removes a container.
ContainerRemoved(c) ==
    /\ Exists(c)
    /\ containers' = Without(containers, c)
    /\ UNCHANGED <<config, file, nextId, images>>
    /\ UNCHANGED <<local, history>>
    /\ UNCHANGED beside

\* The user edits pgd.toml between two invocations.
EditConfig(p, v) ==
    /\ pc = "idle"
    /\ v # config[p].version
    /\ config' = [config EXCEPT ![p].version = v]
    /\ UNCHANGED <<file, containers, nextId, images>>
    /\ UNCHANGED <<local, history>>
    /\ UNCHANGED beside

Next ==
    \/ \E p \in Projects : Begin(p)
    \/ ensure_version_downloaded
    \/ resolve_container
    \/ create_postgres_container
    \/ update_project_container
    \/ check_version
    \/ check_running
    \/ start_container_by_id
    \/ verify_running
    \/ sleep
    \/ Crash
    \/ Exit
    \/ \E c \in 1..MaxContainers : ContainerExits(c)
    \/ \E c \in 1..MaxContainers : ContainerRemoved(c)
    \/ \E p \in Projects, v \in Versions : EditConfig(p, v)

Spec == Init /\ [][Next]_vars

\* One step of a running invocation: a runtime call, a ledger call or a
\* sleep returns.
Step ==
    \/ ensure_version_downloaded
    \/ resolve_container
    \/ create_postgres_container
    \/ update_project_container
    \/ check_version
    \/ check_running
    \/ start_container_by_id
    \/ verify_running
    \/ sleep

\* Invocations that are not killed, beside a runtime whose containers
\* exit and disappear at any time.
NextTerm ==
    \/ \E p \in Projects : Begin(p)
    \/ Step
    \/ Exit
    \/ \E c \in 1..MaxContainers : ContainerExits(c)
    \/ \E c \in 1..MaxContainers : ContainerRemoved(c)

\* Every call and every sleep of a running invocation returns.
SpecTerm == Init /\ [][NextTerm]_vars /\ WF_vars(Step)


\* ------------------------------------------------ the drift decision alone
\* Versions for the drift decision: majors and minors on both sides of 10.
DriftVersions == {Ver(ma, mi) : ma \in {9, 15, 16}, mi \in {2, 11}}

\* Project "a" was provisioned when its pgd.toml named `actual`; the file
\* now names `desired`.  The container is running or not.
InitDrift ==
    \E desired \in DriftVersions, actual \in DriftVersions, r \in BOOLEAN :
        /\ config = [p \in Projects |->
                        [version |-> IF p = "a" THEN desired ELSE Ver(16, 2),
                         password |-> "pw", port |-> 5432]]
        /\ file = save([p \in {"a"} |-> InstanceState(1, actual, 5432)])
        /\ containers = [c \in {1} |->
                            [NewContainer(container_name("a", actual), actual,
                                          "pw", 5432) EXCEPT !.running = r]]
        /\ nextId = 2
        /\ images = {actual}
        /\ pc = "idle"
        /\ project = {}
        /\ instance = {}
        /\ state = EmptyMap
        /\ id = 0
        /\ container_id = 0
        /\ container_version = {}
        /\ attempt = 0
        /\ result = NoResult
        /\ calls = NoCalls
        /\ verified = {}
        /\ queried = {}
        /\ created = {}
        /\ answered = "none"
        /\ fileAtBegin = AbsentFile
        /\ parked = Nobody
        /\ listening = {}
        /\ lastSet = NoneSet

NextDrift ==
    \/ \E p \in Projects : Begin(p)
    \/ ensure_version_downloaded
    \/ resolve_container
    \/ create_postgres_container
    \/ update_project_container
    \/ check_version
    \/ check_running
    \/ start_container_by_id
    \/ verify_running
    \/ sleep
    \/ Crash
    \/ Exit
    \/ \E c \in 1..MaxContainers : ContainerExits(c)
    \/ \E c \in 1..MaxContainers : ContainerRemoved(c)

SpecDrift == InitDrift /\ [][NextDrift]_vars

\* ------------------------------------- port edits and image removals
\* The ports a user writes into pgd.toml.
PortChoices == {5432, 5433}

\* The user edits the port in pgd.toml between two invocations.
EditPort(p, port) ==
    /\ pc = "idle"
    /\ port # config[p].port
    /\ config' = [config EXCEPT ![p].port = port]
    /\ UNCHANGED <<file, containers, nextId, images>>
    /\ UNCHANGED <<local, history>>
    /\ UNCHANGED beside

\* Another client of the daemon removes (untags) a local image: the tag
\* is no longer among the repo_tags that list_images reports.
ImageRemoved(v) ==
    /\ v \in images
    /\ images' = images \ {v}
    /\ UNCHANGED <<config, file, containers, nextId>>
    /\ UNCHANGED <<local, history>>
    /\ UNCHANGED beside

\* The invocations of Spec with the configured version left alone, the
\* configured port edited and images removed.
NextEnv ==
    \/ \E p \in Projects : Begin(p)
    \/ ensure_version_downloaded
    \/ resolve_container
    \/ create_postgres_container
    \/ update_project_container
    \/ check_version
    \/ check_running
    \/ start_container_by_id
    \/ verify_running
    \/ sleep
    \/ Crash
    \/ Exit
    \/ \E c \in 1..MaxContainers : ContainerExits(c)
    \/ \E c \in 1..MaxContainers : ContainerRemoved(c)
    \/ \E p \in Projects, port \in PortChoices : EditPort(p, port)
    \/ \E v \in Versions : ImageRemoved(v)

SpecEnv == Init /\ [][NextEnv]_vars

\* ------------------------------------------------- two invocations
\* The running invocation as a record.
Me ==
    [pc |-> pc, project |-> project, instance |-> instance, state |-> state,
     id |-> id, container_id |-> container_id,
     container_version |-> container_version, attempt |-> attempt,
     result |-> result, calls |-> calls, verified |-> verified,
     queried |-> queried, created |-> created, answered |-> answered,
     fileAtBegin |-> fileAtBegin]

\* Two pgd processes share the ledger file and the daemon and take no
\* lock: between any two steps of one the other may run.  The one that
\* runs is in the variables, the other one is parked.
Switch ==
    /\ parked' = Me
    /\ pc' = parked.pc
    /\ project' = parked.project
    /\ instance' = parked.instance
    /\ state' = parked.state
    /\ id' = parked.id
    /\ container_id' = parked.container_id
    /\ container_version' = parked.container_version
    /\ attempt' = parked.attempt
    /\ result' = parked.result
    /\ calls' = parked.calls
    /\ verified' = parked.verified
    /\ queried' = parked.queried
    /\ created' = parked.created
    /\ answered' = parked.answered
    /\ fileAtBegin' = parked.fileAtBegin
    /\ UNCHANGED <<world, listening, lastSet>>

\* Two invocations, each run once, and the containers another client
\* removes meanwhile.
NextRace ==
    \/ \E p \in Projects : Begin(p)
    \/ ensure_version_downloaded
    \/ resolve_container
    \/ create_postgres_container
    \/ update_project_container
    \/ check_version
    \/ check_running
    \/ start_container_by_id
    \/ verify_running
    \/ sleep
    \/ \E c \in 1..MaxContainers : ContainerRemoved(c)
    \/ Switch

SpecRace == Init /\ [][NextRace]_vars

\* ------------------------------------------------- the port allocator
\* Ports are u16.
U16 == 65536
DEFAULT_POSTGRES_PORT == 5432
PORT_SEARCH_RANGE == 100

Max(S) == CHOOSE x \in S : \A y \in S : y <= x
Min(S) == CHOOSE x \in S : \A y \in S : x <= y

\* Ok(port)
OkPort(port) == [ok |-> TRUE, kind |-> "ok", args |-> <<port>>]

\* The ports the ledger records.
RecordedPorts(m) == {m[q].port : q \in DOMAIN m}

\* StateManager::get_highest_used_port: the maximum recorded port, None
\* for an empty ledger.
get_highest_used_port(m) ==
    IF DOMAIN m = {} THEN {} ELSE {Max(RecordedPorts(m))}

\* TcpListener::bind(("127.0.0.1", port)).is_ok()
bind_ok(port) == port \notin listening

\* The first bindable port of first..(end - 1), or the error.
probe(first, end) ==
    LET free == {port \in first..(end - 1) : bind_ok(port)} IN
    IF free # {}
    THEN OkPort(Min(free))
    ELSE Err("no_port", <<DEFAULT_POSTGRES_PORT,
                          DEFAULT_POSTGRES_PORT + PORT_SEARCH_RANGE - 1>>)

\* utils::find_available_port.  The scan starts at the highest recorded
\* port itself, or at the default port for an empty ledger.  The end of
\* the range is a u16 sum: where it overflows, a build with overflow
\* checks panics and one without wraps it, which leaves an empty range.
find_available_port(m, overflow_checks) ==
    LET highest == get_highest_used_port(m)
        starting_port == IF highest = {} THEN DEFAULT_POSTGRES_PORT
                         ELSE CHOOSE x \in highest : TRUE
        sum == starting_port + PORT_SEARCH_RANGE
    IN  IF sum >= U16 /\ overflow_checks
        THEN Err("panic", <<>>)
        ELSE probe(starting_port, sum % U16)

\* controller.rs, find_available_port(): the same scan from the default
\* port, with no ledger.
controller_find_available_port ==
    probe(DEFAULT_POSTGRES_PORT, DEFAULT_POSTGRES_PORT + PORT_SEARCH_RANGE)

\* The ports of the ledgers the allocator is given, and the listeners.
LedgerPorts == {5000, 5432, 5433, 65500}
Listeners ==
    SUBSET {5000, 5432, 5433, 5434}
        \cup {DEFAULT_POSTGRES_PORT ..
                 (DEFAULT_POSTGRES_PORT + PORT_SEARCH_RANGE - 1)}
        \cup {5000 .. 5099}

\* The ledgers: each project has no record, or one with a port of
\* LedgerPorts.
Ledgers ==
    UNION {[ps -> {InstanceState(1, Ver(16, 2), port) : port \in LedgerPorts}] :
              ps \in SUBSET Projects}

\* Any ledger on disk, any listeners, no invocation yet.
InitPort ==
    /\ config \in [Projects -> [version : {Ver(16, 2)}, password : Passwords,
                                port : Ports]]
    /\ file \in {AbsentFile} \cup {save(m) : m \in Ledgers}
    /\ listening \in Listeners
    /\ containers = EmptyMap
    /\ nextId = 1
    /\ images = {}
    /\ pc = "idle"
    /\ project = {}
    /\ instance = {}
    /\ state = EmptyMap
    /\ id = 0
    /\ container_id = 0
    /\ container_version = {}
    /\ attempt = 0
    /\ result = NoResult
    /\ calls = NoCalls
    /\ verified = {}
    /\ queried = {}
    /\ created = {}
    /\ answered = "none"
    /\ fileAtBegin = AbsentFile
    /\ parked = Nobody
    /\ lastSet = NoneSet

\* A new project asks for a port: the ledger is loaded and
\* utils::find_available_port is applied to it.
allocate_port ==
    /\ pc = "idle"
    /\ load_ok(file)
    /\ state' = load(file)
    /\ \E overflow_checks \in BOOLEAN :
           result' = find_available_port(load(file), overflow_checks)
    /\ pc' = "allocated"
    /\ UNCHANGED world
    /\ UNCHANGED <<project, instance, id, container_id, container_version,
                   attempt>>
    /\ UNCHANGED <<history, beside>>

\* init_project of controller.rs asks for a port.
controller_allocate_port ==
    /\ pc = "idle"
    /\ result' = controller_find_available_port
    /\ pc' = "allocated_default"
    /\ UNCHANGED world
    /\ UNCHANGED <<project, instance, state, id, container_id,
                   container_version, attempt>>
    /\ UNCHANGED <<history, beside>>

NextPort ==
    \/ allocate_port
    \/ controller_allocate_port

SpecPort == InitPort /\ [][NextPort]_vars

\* ------------------------------------------------- the ledger alone
\* A client of StateManager: load, then set, remove, update and save in
\* any order.  pc says what it did last: "loaded", "dirty" (a change
\* since the last load or save), "saved", "load_failed", "save_failed".
Loaded == {"loaded", "dirty", "saved"}

\* The records a client sets.
Records ==
    {InstanceState(cid, v, port) :
        cid \in 1..MaxContainers, v \in Versions, port \in PortChoices}

\* The updaters a client passes to update: each writes one port.
Updaters ==
    {[rec \in Records |-> [rec EXCEPT !.port = port]] : port \in PortChoices}

\* StateManager::update: the updater is applied to the record in place;
\* for a project with no record nothing is created and the call bails.
update_result(m, name) ==
    IF name \in DOMAIN m THEN Ok ELSE Err("no_state", <<name>>)
update(m, name, updater) ==
    IF name \in DOMAIN m THEN [m EXCEPT ![name] = updater[@]] ELSE m

\* StateManager::load
sm_load ==
    /\ pc = "idle"
    /\ \/ /\ load_ok(file)
          /\ state' = load(file)
          /\ lastSet' = [q \in Projects |-> get(load(file), q)]
          /\ result' = Ok
          /\ pc' = "loaded"
       \/ /\ \E e \in load_error(file) : result' = e
          /\ pc' = "load_failed"
          /\ UNCHANGED <<state, lastSet>>
    /\ UNCHANGED world
    /\ UNCHANGED <<project, instance, id, container_id, container_version,
                   attempt>>
    /\ UNCHANGED <<history, parked, listening>>

\* StateManager::set (upsert)
sm_set(name, rec) ==
    /\ pc \in Loaded
    /\ state' = upsert(state, name, rec)
    /\ lastSet' = [lastSet EXCEPT ![name] = {rec}]
    /\ pc' = "dirty"
    /\ UNCHANGED world
    /\ UNCHANGED <<project, instance, id, container_id, container_version,
                   attempt, result>>
    /\ UNCHANGED <<history, parked, listening>>

\* StateManager::remove
sm_remove(name) ==
    /\ pc \in Loaded
    /\ state' = remove(state, name)
    /\ lastSet' = [lastSet EXCEPT ![name] = {}]
    /\ pc' = "dirty"
    /\ UNCHANGED world
    /\ UNCHANGED <<project, instance, id, container_id, container_version,
                   attempt, result>>
    /\ UNCHANGED <<history, parked, listening>>

\* StateManager::update
sm_update(name, updater) ==
    /\ pc \in Loaded
    /\ state' = update(state, name, updater)
    /\ result' = update_result(state, name)
    /\ lastSet' = [lastSet EXCEPT ![name] = get(update(state, name, updater),
                                               name)]
    /\ pc' = IF name \in DOMAIN state THEN "dirty" ELSE pc
    /\ UNCHANGED world
    /\ UNCHANGED <<project, instance, id, container_id, container_version,
                   attempt>>
    /\ UNCHANGED <<history, parked, listening>>

\* StateManager::save: the document is written, or the write fails and
\* leaves the file as it was or truncated.
sm_save ==
    /\ pc \in Loaded
    /\ \/ /\ file' = save(state)
          /\ result' = Ok
          /\ pc' = "saved"
       \/ /\ file' \in {file, PartialFile}
          /\ result' = Err("save", <<>>)
          /\ pc' = "save_failed"
    /\ UNCHANGED <<config, containers, nextId, images>>
    /\ UNCHANGED <<project, instance, state, id, container_id,
                   container_version, attempt>>
    /\ UNCHANGED <<history, beside>>

\* The StateManager is dropped: nothing is flushed.
sm_drop ==
    /\ pc \in Loaded \cup {"load_failed", "save_failed"}
    /\ Gone
    /\ lastSet' = NoneSet
    /\ UNCHANGED <<world, parked, listening>>

NextLedger ==
    \/ sm_load
    \/ \E name \in Projects, rec \in Records : sm_set(name, rec)
    \/ \E name \in Projects : sm_remove(name)
    \/ \E name \in Projects, updater \in Updaters : sm_update(name, updater)
    \/ sm_save
    \/ sm_drop

SpecLedger == Init /\ [][NextLedger]_vars

\* ------------------------------------------- the Controller's start loop
\* Controller::try_starting_container.  The whole match is wrapped in
\* Ok(..): a failed start call and a container found not running only
\* print a message, and the function returns Ok(()) as it does for a
\* container verified running.  Only the inspect's error leaves through
\* `?`.  inspect is the answer of the running inspect made after a
\* successful start.
controller_try_starting_container(started, inspect) ==
    IF started /\ inspect \in {"not_found", "error"}
    THEN Err("inspect", <<>>)
    ELSE Ok

\* Controller::ensure_container_running, the body of the loop after the
\* attempt: Ok(_) breaks out of the loop, and the statement after the
\* loop is the bail; Err is printed and the loop goes on while attempts
\* remain.
controller_loop_step(r) ==
    IF r.ok
    THEN Return(Err("exhausted", <<MAX_RETRIES>>))
    ELSE IF attempt < MAX_RETRIES
         THEN pc' = "sleep" /\ UNCHANGED result
         ELSE Return(Err("exhausted", <<MAX_RETRIES>>))

\* Controller::try_starting_container: the start call.
controller_start_container_by_id ==
    /\ pc = "start"
    /\ calls' = [calls EXCEPT !.start = @ + 1, !.waited = 0, !.inspected = 0]
    /\ queried' = queried \cup {container_id}
    /\ \/ /\ Exists(container_id)
          /\ containers' = [containers EXCEPT ![container_id].running = TRUE]
          /\ pc' = "verify"
          /\ UNCHANGED result
       \/ /\ controller_loop_step(controller_try_starting_container(FALSE, "none"))
          /\ UNCHANGED containers
    /\ UNCHANGED <<config, file, nextId, images>>
    /\ UNCHANGED <<project, instance, state, id, container_id,
                   container_version, attempt>>
    /\ UNCHANGED <<verified, created, answered, fileAtBegin>>
    /\ UNCHANGED beside

\* Controller::try_starting_container after a successful start: the
\* sleep of VERIFY_DURATION_SECS, then one running inspect.
controller_verify_running ==
    /\ pc = "verify"
    /\ queried' = queried \cup {container_id}
    /\ calls' = [calls EXCEPT !.waited = VERIFY_DURATION_SECS,
                              !.inspected = @ + 1]
    /\ \E inspect \in {"yes", "no", "not_found", "error"} :
          /\ inspect \in {"yes", "no"}
             => /\ Exists(container_id)
                /\ inspect = "yes" <=> is_container_running_by_id(container_id)
          /\ inspect = "not_found" => ~Exists(container_id)
          /\ answered' = inspect
          /\ controller_loop_step(controller_try_starting_container(TRUE, inspect))
    /\ UNCHANGED world
    /\ UNCHANGED <<project, instance, state, id, container_id,
                   container_version, attempt>>
    /\ UNCHANGED <<verified, created, fileAtBegin>>
    /\ UNCHANGED beside

\* Controller::ensure_container_running: the one-second sleep between two
\* attempts.
controller_sleep ==
    /\ pc = "sleep"
    /\ calls' = [calls EXCEPT !.sleep = @ + 1]
    /\ attempt' = attempt + 1
    /\ pc' = "start"
    /\ UNCHANGED world
    /\ UNCHANGED <<project, instance, state, id, container_id,
                   container_version, result>>
    /\ UNCHANGED <<verified, queried, created, answered, fileAtBegin>>
    /\ UNCHANGED beside

\* Controller::ensure_container_running at "Starting container...": the
\* project's recorded container exists, carries the configured version
\* and has just been inspected as not running.
InitController ==
    \E p \in Projects :
        /\ config \in [Projects -> [version : {Ver(16, 2)},
                                    password : Passwords, port : Ports]]
        /\ file = save([q \in {p} |-> InstanceState(1, Ver(16, 2), 5432)])
        /\ containers = [c \in {1} |->
                            NewContainer(container_name(p, Ver(16, 2)),
                                         Ver(16, 2), "pw", 5432)]
        /\ nextId = 2
        /\ images = {Ver(16, 2)}
        /\ pc = "start"
        /\ project = {[name |-> p, config |-> config[p]]}
        /\ instance = {InstanceState(1, Ver(16, 2), 5432)}
        /\ state = [q \in {p} |-> InstanceState(1, Ver(16, 2), 5432)]
        /\ id = 0
        /\ container_id = 1
        /\ container_version = {Ver(16, 2)}
        /\ attempt = 1
        /\ result = NoResult
        /\ calls = [NoCalls EXCEPT !.probe = 1, !.list = 1, !.exists = 1,
                                   !.version = 1, !.running = 1]
        /\ verified = {1}
        /\ queried = {1}
        /\ created = {}
        /\ answered = "no"
        /\ fileAtBegin = file
        /\ parked = Nobody
        /\ listening = {}
        /\ lastSet = NoneSet

NextController ==
    \/ controller_start_container_by_id
    \/ controller_verify_running
    \/ controller_sleep
    \/ \E c \in 1..MaxContainers : ContainerExits(c)
    \/ \E c \in 1..MaxContainers : ContainerRemoved(c)

SpecController == InitController /\ [][NextController]_vars

\* ------------------------------------------------------ init_project
\* init_project writes a new pgd.toml in every directory.
needs_init_always(p) == TRUE

\* init_project, `if let Some(project) = &self.project`: a directory
\* with a pgd.toml has a project and is only reconciled.
needs_init(p) == p \notin DOMAIN config

\* versions.sort(); versions.last()
latest(versions) ==
    CHOOSE v \in versions : \A w \in versions : ~VersionLt(v, w)

\* init_project: with a pgd.toml, reconcile and nothing else.  Without
\* one: the latest version, a generated password and a free port are
\* written to a new pgd.toml, which is then reconciled; an error on the
\* way (the version list, the port scan, the write) ends the command.
init_project(p) ==
    IF ~needs_init(p)
    THEN Begin(p)
    ELSE \/ \E password \in Passwords :
               LET port == controller_find_available_port
                   cfg == [version |-> latest(Versions),
                           password |-> password,
                           port |-> port.args[1]] IN
               /\ port.ok
               /\ BeginWith(p, cfg, 1)
               /\ config' = IF pc' = "reconcile"
                            THEN Insert(config, p, cfg) ELSE config
         \/ /\ pc = "idle"
            /\ \E kind \in {"versions", "no_port", "write_config"} :
                   Return(Err(kind, <<>>))
            /\ fileAtBegin' = file
            /\ calls' = [NoCalls EXCEPT !.probe = 1]
            /\ UNCHANGED <<verified, queried, created, answered>>
            /\ UNCHANGED <<project, instance, state, id, container_id,
                           container_version, attempt>>
            /\ UNCHANGED <<world, beside>>

\* Each directory has a pgd.toml or not.
InitInit ==
    /\ config \in UNION {[ps -> [version : {Ver(16, 2)}, password : Passwords,
                                 port : Ports]] : ps \in SUBSET Projects}
    /\ file = AbsentFile
    /\ containers = EmptyMap
    /\ nextId = 1
    /\ images = {}
    /\ pc = "idle"
    /\ project = {}
    /\ instance = {}
    /\ state = EmptyMap
    /\ id = 0
    /\ container_id = 0
    /\ container_version = {}
    /\ attempt = 0
    /\ result = NoResult
    /\ calls = NoCalls
    /\ verified = {}
    /\ queried = {}
    /\ created = {}
    /\ answered = "none"
    /\ fileAtBegin = AbsentFile
    /\ parked = Nobody
    /\ listening = {}
    /\ lastSet = NoneSet

\* Every invocation is `pgd init`.
NextInit ==
    \/ \E p \in Projects : init_project(p)
    \/ ensure_version_downloaded
    \/ resolve_container
    \/ create_postgres_container
    \/ update_project_container
    \/ check_version
    \/ check_running
    \/ start_container_by_id
    \/ verify_running
    \/ sleep
    \/ Crash
    \/ Exit
    \/ \E c \in 1..MaxContainers : ContainerExits(c)
    \/ \E c \in 1..MaxContainers : ContainerRemoved(c)

SpecInit == InitInit /\ [][NextInit]_vars

\* ------------------------------------------------------------- claims
InCall == pc # "idle" /\ project # {}
Name == TheProject.name
Desired == TheProject.config.version
Recorded == TheInstance.container_id
\* The loop and the checks before it: everything after the container id
\* is resolved.
Resolved == {"version", "running", "start", "verify", "sleep"}
\* The ledger file names container c.
Tracks(f, c) ==
    /\ f.kind = "doc"
    /\ \E q \in DOMAIN f.instances : f.instances[q].container_id = c

\* C1: for a project with no ledger entry, a reconcile call issues at most
\* one create_container; once it is past provisioning (and at the latest
\* when the first start call is issued) it has issued exactly one create
\* and one save, that save has completed, and the file holds exactly one
\* record more than at the start: the project's, with the id that
\* create_container returned.
C1_NewProjectProvisionedOnce ==
    (InCall /\ instance = {}) =>
        /\ calls.create <= 1
        /\ Cardinality(created) <= 1
        /\ Name \notin DOMAIN fileAtBegin.instances
        /\ (calls.start > 0 \/ pc \in Resolved \/ (pc = "done" /\ result.ok))
            => /\ calls.create = 1 /\ calls.save = 1 /\ calls.saved = 1
               /\ created = {id}
               /\ container_id = id
               /\ file.kind = "doc"
               /\ DOMAIN file.instances =
                      DOMAIN fileAtBegin.instances \cup {Name}
               /\ file.instances[Name].container_id = id
               /\ \A q \in DOMAIN fileAtBegin.instances :
                      file.instances[q] = fileAtBegin.instances[q]

C1_Witness ==
    /\ InCall /\ instance = {}
    /\ pc = "verify" /\ calls.start = 1 /\ calls.saved = 1
    /\ Tracks(file, id)

\* C2: when the recorded container id is not found in the runtime, the
\* call issues no version read, running inspect or start on that id; it
\* goes on only with a container it created; and once its save has
\* completed the project's record, in memory and in the file, holds the new
\* id and no record holds the old one.
C2_ReplacementDiscardsOldId ==
    (/\ InCall /\ instance # {} /\ calls.exists = 1
     /\ Recorded \notin verified
     /\ (pc = "create" \/ calls.create >= 1)) =>
        /\ Recorded \notin queried
        /\ calls.create <= 1
        /\ (pc \in Resolved \/ calls.start > 0 \/ (pc = "done" /\ result.ok))
            => calls.create = 1 /\ calls.saved = 1 /\ container_id = id
        /\ calls.saved = 1
            => /\ id \in created /\ id # Recorded
               /\ file.kind = "doc"
               /\ Name \in DOMAIN file.instances
               /\ file.instances[Name].container_id = id
               /\ state[Name].container_id = id
               /\ ~Tracks(file, Recorded)
               /\ \A q \in DOMAIN state : state[q].container_id # Recorded

C2_Witness ==
    /\ InCall /\ instance # {} /\ Recorded \notin verified
    /\ pc = "done" /\ result.ok
    /\ calls.create = 1 /\ calls.saved = 1
    /\ file.instances[Name].container_id = id /\ id # Recorded

\* C3: once the version label is read, the outcome follows the order of
\* (major, minor) as integers: equal, no drift error and the call goes on
\* to the running check; desired greater, the upgrade error; desired less,
\* the downgrade error.
C3_DriftDecisionIsLexicographic ==
    (InCall /\ container_version # {}) =>
        LET a == CHOOSE v \in container_version : TRUE
            d == Desired
        IN  /\ (d.major = a.major /\ d.minor = a.minor)
                => /\ result.kind \notin {"upgrade", "downgrade"}
                   /\ (pc = "running" \/ calls.running = 1)
            /\ (d.major > a.major \/ (d.major = a.major /\ d.minor > a.minor))
                => pc = "done" /\ result.kind = "upgrade"
            /\ (d.major < a.major \/ (d.major = a.major /\ d.minor < a.minor))
                => pc = "done" /\ result.kind = "downgrade"

\* Desired 16.11 against a container labelled 16.2: an upgrade.
C3_Witness ==
    /\ InCall /\ pc = "done" /\ result.kind = "upgrade"
    /\ Desired = Ver(16, 11) /\ container_version = {Ver(16, 2)}

\* C4: both drift errors carry the observed and the desired version in
\* their message.
C4_DriftErrorsNameBothVersions ==
    (InCall /\ pc = "done" /\ result.kind \in {"upgrade", "downgrade"}) =>
        /\ \E i \in DOMAIN result.args :
               result.args[i] = to_string(CHOOSE v \in container_version : TRUE)
        /\ \E i \in DOMAIN result.args : result.args[i] = to_string(Desired)

\* C5: once the recorded container is found to exist, the call issues no
\* create and no save, and the ledger in memory and in the file are what
\* they were when the call began; if its label equals the configured
\* version and the running check says it is running, the call has returned
\* Ok without a start call.  This holds in every call.
C5_ConvergedIsNoOp ==
    (InCall /\ instance # {} /\ Recorded \in verified) =>
        /\ calls.create = 0 /\ calls.save = 0 /\ created = {}
        /\ file = fileAtBegin
        /\ state = load(fileAtBegin)
        /\ (container_version = {Desired} /\ attempt = 0 /\ answered = "yes")
            => pc = "done" /\ result = Ok /\ calls.start = 0

C5_Witness ==
    /\ InCall /\ instance # {} /\ Recorded \in verified
    /\ container_version = {Desired} /\ answered = "yes"
    /\ pc = "done" /\ result = Ok /\ calls.start = 0 /\ calls.create = 0
    /\ file = fileAtBegin /\ file.kind = "doc"

\* C6: in the loop, attempt k has been preceded by k-1 start calls and k-1
\* delays; when attempt k finds the container running the call returns Ok
\* with exactly k start calls and k-1 delays, k <= MAX_RETRIES.
C6_RetrySuccessCounts ==
    (InCall /\ attempt >= 1) =>
        /\ attempt <= MAX_RETRIES
        /\ calls.sleep = attempt - 1
        /\ calls.start = IF pc = "start" THEN attempt - 1 ELSE attempt
        /\ (pc = "done" /\ answered = "yes")
            => result = Ok /\ calls.start = attempt

\* Three failed attempts, then the fourth succeeds.
C6_Witness ==
    /\ InCall /\ pc = "done" /\ result = Ok
    /\ attempt = 4 /\ calls.start = 4 /\ calls.sleep = 3

\* C7: a call issues at most MAX_RETRIES start calls and MAX_RETRIES - 1
\* delays; when the last attempt fails it returns the exhaustion error
\* after exactly that many; and a call that issued a start call and failed
\* returns that error and no other.
C7_ExhaustionAfterMaxRetries ==
    InCall =>
        /\ calls.start <= MAX_RETRIES
        /\ calls.sleep <= MAX_RETRIES - 1
        /\ (pc = "done" /\ result.kind = "exhausted")
            => /\ calls.start = MAX_RETRIES
               /\ calls.sleep = MAX_RETRIES - 1
               /\ attempt = MAX_RETRIES
        /\ (pc = "done" /\ calls.start > 0 /\ ~result.ok)
            => result.kind = "exhausted"
        /\ (pc = "done" /\ calls.start = MAX_RETRIES /\ answered # "yes")
            => result.kind = "exhausted"

C7_Witness ==
    /\ InCall /\ pc = "done" /\ result.kind = "exhausted"
    /\ calls.start = 10 /\ calls.sleep = 9 /\ answered = "no"

\* C8: a call issues at most one save, and only after it created a
\* container because the project had no record or the recorded id was not
\* found; without a save the file is what it was when the call began; and
\* from the version check on, through the loop, the in-memory ledger and
\* the file are what provisioning left.
C8_AtMostOneSave ==
    InCall =>
        /\ calls.save <= 1
        /\ calls.save >= 1
            => /\ calls.create = 1 /\ created = {id}
               /\ (instance = {} \/ Recorded \notin verified)
        /\ calls.save = 0 => file = fileAtBegin
        /\ (pc \in Resolved \/ calls.start > 0)
            => /\ state = IF created = {}
                          THEN load(fileAtBegin)
                          ELSE Insert(load(fileAtBegin), Name,
                                   InstanceState(id, Desired,
                                                 TheProject.config.port))
               /\ file = IF created = {} THEN fileAtBegin ELSE save(state)

\* In the loop, after provisioning.
C8_Witness ==
    /\ InCall /\ pc = "sleep" /\ attempt = 2
    /\ calls.save = 1 /\ calls.create = 1 /\ file = save(state)

\* C9: the steps come in order.  A version read, running inspect or start
\* is issued only on the resolved id, and only after that id was found to
\* exist or was created in this call; the version read comes after the
\* existence check or the creation; the running check after a version check
\* that passed; the start calls after the running check said "no".
C9_StepsInOrder ==
    InCall =>
        /\ queried \subseteq verified
        /\ queried \subseteq {container_id}
        /\ calls.exists <= 1 /\ calls.version <= 1 /\ calls.running <= 1
        /\ calls.version = 1
            => /\ container_id \in verified
               /\ (calls.exists = 1 \/ calls.create = 1)
               /\ calls.create = 1 => calls.saved = 1
        /\ calls.running = 1
            => calls.version = 1 /\ container_version = {Desired}
        /\ calls.start >= 1
            => calls.running = 1 /\ answered # "none"
        /\ pc \in {"start", "verify", "sleep"} => calls.running = 1
        /\ (instance # {} /\ (pc \in Resolved \/ pc = "create"))
            => calls.exists = 1

\* All four steps in one call, on a recorded container.
C9_Witness ==
    /\ InCall /\ pc = "verify"
    /\ calls.exists = 1 /\ calls.version = 1 /\ calls.running = 1
    /\ calls.start = 1 /\ queried = {Recorded}

\* C10 as claimed: whenever the call ends (killed, or with an error) after
\* create_container returned and before the first start call, the file
\* names the created container.
C10_NoOrphanAfterCreate ==
    [][(/\ pc \notin {"idle", "done"} /\ created # {} /\ calls.start = 0
        /\ pc' \in {"idle", "done"} /\ ~result'.ok)
       => \A c \in created : Tracks(file', c)]_vars

\* C10 as the code has it: the same from the completed save on.  While the
\* save has completed and no start call was issued the file names the
\* created container under the project, and it still does when the call
\* ends there, killed or with an error.
C10_NoOrphanAfterSave ==
    /\ [](( InCall /\ created # {} /\ calls.saved = 1 /\ calls.start = 0)
          => /\ created = {id}
             /\ file.kind = "doc"
             /\ Name \in DOMAIN file.instances
             /\ file.instances[Name].container_id = id)
    /\ [][(/\ pc \notin {"idle", "done"} /\ created # {} /\ calls.saved = 1
           /\ calls.start = 0 /\ pc' \in {"idle", "done"} /\ ~result'.ok)
          => \A c \in created : Tracks(file', c)]_vars

\* The version read fails right after the save.
C10_Witness ==
    /\ InCall /\ pc = "done" /\ ~result.ok
    /\ created = {id} /\ calls.saved = 1 /\ calls.start = 0
    /\ Tracks(file, id)

\* C11: when the process is killed at any point of a reconcile call, the
\* ledger file is left as the last completed save wrote it (or absent): the
\* kill changes nothing in it and leaves no truncated document.
C11_KillLeavesLastCompletedSave ==
    [][(pc \notin {"idle", "done"} /\ pc' = "idle")
       => file' = file /\ file'.kind # "partial"]_vars

\* C12: a container id that is absent from the runtime never makes a
\* reconcile call fail with an inspect error: the version read and the
\* running inspect answer a 404 with a negative result, as the existence
\* check does, and in the loop a 404 is a plain "not running".
C12_NotFoundIsNeverAnError ==
    InCall => /\ result.kind # "not_found"
              /\ answered # "not_found"

\* C13: a daemon error other than not-found or a start failure ends the
\* call wherever it occurs.  When the running inspect that follows a
\* successful start in the loop returns such an error, the call has
\* returned that error: it is not in the loop any more, sleeps no more and
\* issues no further start call.
C13_InspectErrorInLoopIsFatal ==
    (InCall /\ answered = "error") =>
        /\ pc = "done"
        /\ result.kind = "inspect"

\* C14: whenever a reconcile call returns success, the container it
\* resolved is bound to the host port that pgd.toml declares, whatever
\* reconciles and port edits came before.
C14_SuccessMeansConfiguredPort ==
    (InCall /\ pc = "done" /\ result.ok /\ Exists(container_id)) =>
        containers[container_id].port = TheProject.config.port

\* C16: when the recorded container exists, carries the configured
\* version and is found running by the check before the loop, the call has
\* issued no mutating runtime call: no create, no start and no image pull,
\* whether or not the image is present locally.
C16_ConvergedIssuesNoMutatingCall ==
    (/\ InCall /\ instance # {} /\ Recorded \in verified
     /\ container_version = {Desired} /\ answered = "yes" /\ attempt = 0) =>
        calls.create = 0 /\ calls.start = 0 /\ calls.pull = 0

\* Both invocations reconcile the same project, both created a container
\* and the parked one's save has completed.
BothProvisioned ==
    /\ project # {} /\ parked.project = project
    /\ created # {} /\ parked.created # {}
    /\ parked.calls.saved = 1

\* C15: two invocations that reconcile the same project without locking
\* can both find no usable container, both create and both save.  The
\* save that completes last writes that invocation's whole ledger: the
\* file then holds one record for the project, with the id that invocation
\* created, and the id the other one created is in no record.  From then
\* on the file is the document of one of the two and names only its id.
C15_LastSaverWins ==
    /\ [][(/\ BothProvisioned /\ parked' = parked
           /\ calls.saved = 0 /\ calls'.saved = 1)
          => /\ file' = save(state)
             /\ Name \in DOMAIN file'.instances
             /\ file'.instances[Name].container_id = id
             /\ ~Tracks(file', parked.id)]_vars
    /\ []((BothProvisioned /\ calls.saved = 1) =>
            /\ id # parked.id
            /\ file.kind = "doc"
            /\ Name \in DOMAIN file.instances
            /\ \/ /\ file = save(state)
                  /\ file.instances[Name].container_id = id
                  /\ ~Tracks(file, parked.id)
               \/ /\ file = save(parked.state)
                  /\ file.instances[Name].container_id = parked.id
                  /\ ~Tracks(file, id))

\* Both have created and saved; the file is the running invocation's.
C15_Witness ==
    /\ BothProvisioned /\ calls.saved = 1
    /\ instance = {} /\ parked.instance = {}
    /\ id # parked.id
    /\ file = save(state) /\ Tracks(file, id) /\ ~Tracks(file, parked.id)

\* The window the claims give the allocator: the ports from
\* s = max(highest recorded port, default port) to s + 99 (s the default
\* port for an empty ledger) that are bindable.
ClaimedFree ==
    LET recorded == RecordedPorts(load(file))
        s == IF recorded = {} THEN DEFAULT_POSTGRES_PORT
             ELSE Max(recorded \cup {DEFAULT_POSTGRES_PORT})
    IN  {port \in s..(s + PORT_SEARCH_RANGE - 1) : port < U16 /\ bind_ok(port)}

\* C17: find_available_port applied to the ledger returns the smallest
\* bindable port p with s <= p < s + 100, s = max(highest recorded port,
\* 5432) and s = 5432 for an empty ledger; it returns an error when none
\* of those ports is bindable.
C17_SmallestBindableFromMaxOfHighestAndDefault ==
    pc = "allocated" =>
        IF ClaimedFree = {}
        THEN ~result.ok
        ELSE result = OkPort(Min(ClaimedFree))

\* C18: the port the allocator returns is not a port the ledger records,
\* whether or not that port is bindable; with the ledger recording
\* {5432, 5433} and 5434 bindable it returns 5434.
C18_NeverARecordedPort ==
    (pc \in {"allocated", "allocated_default"} /\ load_ok(file)) =>
        LET recorded == RecordedPorts(load(file)) IN
        /\ result.ok => result.args[1] \notin recorded
        /\ (pc = "allocated" /\ recorded = {5432, 5433} /\ bind_ok(5434))
            => result = OkPort(5434)

C20_OnlySavePersists ==
    /\ [][(pc \in Loaded /\ pc' = "dirty")
          => file' = file /\ load(file') = load(file)]_vars
    /\ [](pc = "loaded" => load_ok(file) /\ state = load(file))
    /\ [](pc = "saved" => load_ok(file) /\ load(file) = state)

\* Two records saved, then one removed and not saved: the file still
\* holds both.
C20_Witness ==
    /\ pc = "dirty"
    /\ DOMAIN state = {"a"}
    /\ file.kind = "doc" /\ DOMAIN file.instances = {"a", "b"}
    /\ load(file)["b"].postgres_version = Ver(16, 11)

\* C21: after any sequence of set and remove on a loaded ledger, get(name)
\* returns the record of the most recent set(name, r) that no remove(name)
\* followed, and none otherwise; a name has at most one record; and an
\* operation on one name leaves the record of every other name as it was.
C21_GetReturnsLastSet ==
    /\ [](pc \in Loaded =>
            \A q \in Projects : /\ get(state, q) = lastSet[q]
                                /\ Cardinality(get(state, q)) <= 1)
    /\ [][(pc \in Loaded /\ pc' = "dirty")
          => \E name \in Projects :
                 \A q \in Projects \ {name} : get(state', q) = get(state, q)]_vars

\* "a" was saved with container 1 and set again with container 2; "b" was
\* saved and then removed.
C21_Witness ==
    /\ pc = "dirty"
    /\ get(state, "a") = {InstanceState(2, Ver(16, 11), 5432)}
    /\ get(state, "b") = {}
    /\ file.kind = "doc" /\ DOMAIN file.instances = {"a", "b"}
    /\ file.instances["a"].container_id = 1

\* C22: update(name, updater) succeeds for every project name: it applies
\* the updater to the project's record and creates the record when the
\* project has none.
C22_UpdateCreatesMissingRecord ==
    pc \in Loaded => result.kind # "no_state"

\* The ledger L keeps every record that `before` holds, changes no record
\* of another project, and holds a changed record for the project only if
\* this call created a container: then the record is the new one as a
\* whole (created id, configured version, configured port).
KeepsRecords(before, L) ==
    /\ DOMAIN before \subseteq DOMAIN L
    /\ DOMAIN L \subseteq DOMAIN before \cup {Name}
    /\ \A q \in DOMAIN before \ {Name} : L[q] = before[q]
    /\ (Name \in DOMAIN L /\ get(L, Name) # get(before, Name))
        => /\ created = {id}
           /\ L[Name] = InstanceState(id, Desired, TheProject.config.port)

\* C23: in a reconcile call the ledger, in memory and on disk, never loses
\* a record and never shows a changed record of another project; the
\* project's own record changes only in a call that created a container,
\* and then it is the new record as a whole.
C23_ReconcileReplacesOnlyOwnRecord ==
    InCall =>
        /\ KeepsRecords(load(fileAtBegin), state)
        /\ KeepsRecords(load(fileAtBegin), load(file))

\* C24: no step taken after an invocation has begun writes pgd.toml, on
\* any path; the configuration the call works with is the one in the
\* file; and no step at all, init_project included, changes a pgd.toml
\* that exists: init_project in a directory that has one only reconciles.
C24_ConfigIsNeverRewritten ==
    /\ [][pc # "idle" => config' = config]_vars
    /\ [][\A q \in DOMAIN config :
              q \in DOMAIN config' /\ config'[q] = config[q]]_vars
    /\ [](InCall => /\ Name \in DOMAIN config
                    /\ config[Name] = TheProject.config)

\* init_project has reconciled a directory that had a pgd.toml: the file
\* still names 16.2, not the latest version.
C24_Witness ==
    /\ InCall /\ calls.init = 0
    /\ pc = "done" /\ result.ok /\ calls.create = 1
    /\ config[Name].version = Ver(16, 2)
    /\ latest(Versions) # Ver(16, 2)

\* C25: ensure_version_downloaded pulls only when no local image carries
\* the desired tag; with the image present it lists, pulls nothing and
\* leaves the image store as it is; once it has succeeded the image is
\* present, and stays present, so a second call finds it and performs no
\* download.
C25_PullsOnlyAMissingImage ==
    /\ [][(pc = "reconcile" /\ calls'.pull # calls.pull)
          => /\ Desired \notin images
             /\ calls'.pull = calls.pull + 1]_vars
    /\ [][(pc = "reconcile" /\ pc' \in {"resolve", "done"}
                              /\ Desired \in images)
          => /\ images' = images
             /\ calls'.pull = calls.pull
             /\ calls'.list = calls.list + 1]_vars
    /\ [][images \subseteq images']_vars
    /\ [](pc = "resolve" => Desired \in images)
    /\ [](InCall => calls.pull <= calls.list /\ calls.list <= 1)

\* A second invocation, after one that pulled the image and provisioned
\* the container, has listed the images and pulled nothing.
C25_Witness ==
    /\ InCall /\ pc = "resolve" /\ instance # {}
    /\ calls.list = 1 /\ calls.pull = 0
    /\ Desired \in images

\* C26: every invocation probes the daemon exactly once, at construction;
\* an unreachable daemon fails the invocation in that first step, and the
\* invocation has then pulled no image, inspected, created or started no
\* container, and written nothing to the ledger.
C26_UnreachableDaemonFailsBeforeAnyWork ==
    /\ [](pc # "idle" => calls.probe = 1)
    /\ [][(result'.kind = "connect" /\ result # result') => pc = "idle"]_vars
    /\ []((pc = "done" /\ result.kind = "connect")
          => /\ calls = [NoCalls EXCEPT !.probe = 1]
             /\ created = {} /\ queried = {} /\ verified = {}
             /\ answered = "none"
             /\ file = fileAtBegin)

\* The daemon was unreachable for an invocation run after the project
\* had been provisioned.
C26_Witness ==
    /\ pc = "done" /\ result.kind = "connect" /\ calls.probe = 1
    /\ file.kind = "doc" /\ containers # EmptyMap

\* C27: an attempt is one start call.  A start that fails is a failed
\* attempt with no verification wait and no inspect.  A start that
\* succeeds is followed by the whole verification window and then exactly
\* one running inspect: "running" ends reconcile with success, "not
\* running" is a failed attempt.  A failed attempt leads to the next
\* attempt or, after the last one, to the exhaustion error.
C27_AttemptProtocol ==
    /\ [](InCall /\ pc \in {"verify", "sleep"} => calls.start = attempt)
    /\ [](InCall /\ pc = "verify"
          => calls.waited = 0 /\ calls.inspected = 0)
    /\ [][(pc = "start" /\ pc' \notin {"idle", "start"})
          => /\ calls'.start = calls.start + 1
             /\ \/ pc' = "verify"
                \/ /\ calls'.waited = 0 /\ calls'.inspected = 0
                   /\ answered' = answered
                   /\ IF attempt < MAX_RETRIES
                      THEN pc' = "sleep" /\ attempt' = attempt
                      ELSE pc' = "done" /\ result'.kind = "exhausted"]_vars
    /\ [][(pc = "verify" /\ pc' \notin {"idle", "verify"})
          => /\ calls'.start = calls.start
             /\ calls'.waited = VERIFY_DURATION_SECS
             /\ calls'.inspected = 1
             /\ answered' \in {"yes", "no", "not_found", "error"}
             /\ answered' = "yes" => pc' = "done" /\ result' = Ok
             /\ answered' = "no"
                => IF attempt < MAX_RETRIES
                   THEN pc' = "sleep" /\ attempt' = attempt
                   ELSE pc' = "done" /\ result'.kind = "exhausted"]_vars
    /\ [][(pc = "sleep" /\ pc' \notin {"idle", "sleep"})
          => pc' = "start" /\ attempt' = attempt + 1]_vars

\* The first attempt's start succeeded and the container was found not
\* running after the wait; the second attempt was verified running.
C27_Witness ==
    /\ InCall /\ pc = "done" /\ result.ok
    /\ attempt = 2 /\ calls.start = 2
    /\ calls.waited = VERIFY_DURATION_SECS /\ calls.inspected = 1
    /\ answered = "yes"

\* C28: an invocation whose calls and sleeps all return ends, with
\* success or with an error, having issued at most one create_container
\* call and at most MAX_RETRIES start calls, whatever the runtime answers.
C28_ReconcileTerminates ==
    /\ [](pc # "idle" => calls.create <= 1 /\ calls.start <= MAX_RETRIES)
    /\ [](pc = "done" => result # NoResult)
    /\ (pc \notin {"idle", "done"}) ~> (pc = "done")

\* An invocation that created a container and used every attempt.
C28_Witness ==
    /\ pc = "done" /\ result.kind = "exhausted"
    /\ calls.create = 1 /\ calls.start = MAX_RETRIES

\* C29: reconcile returns success only when the last running inspect it
\* made, on the container it resolved, answered "running", and the version
\* label it read from that container is the configured version.
C29_SuccessMeansRunningAndMatching ==
    (InCall /\ pc = "done" /\ result.ok)
    => /\ answered = "yes"
       /\ container_version = {Desired}
       /\ container_id \in queried
       /\ calls.version = 1 /\ calls.running = 1

\* Success for a recorded container of the configured version that was
\* found stopped and verified running after the first attempt.
C29_Witness ==
    /\ InCall /\ pc = "done" /\ result.ok
    /\ instance # {} /\ calls.create = 0
    /\ attempt = 1 /\ answered = "yes"
    /\ container_version = {Desired}

\* C30: in the Controller's loop a failed attempt (start error, or not
\* running after the verification wait) is followed by a further attempt
\* while fewer than MAX_RETRIES were made; an attempt that leaves the
\* container verified running ends reconcile with success; and the
\* exhaustion error is returned only after MAX_RETRIES attempts.
C30_ControllerRetriesUntilVerified ==
    /\ [][(pc = "start" /\ pc' \notin {"start", "verify"}
                       /\ attempt < MAX_RETRIES) => pc' = "sleep"]_vars
    /\ [][(pc = "verify" /\ pc' # "verify" /\ answered' = "no"
                        /\ attempt < MAX_RETRIES) => pc' = "sleep"]_vars
    /\ [][(pc = "verify" /\ pc' # "verify" /\ answered' = "yes")
          => pc' = "done" /\ result' = Ok]_vars
    /\ []((pc = "done" /\ result.kind = "exhausted")
          => calls.start = MAX_RETRIES /\ answered # "yes")


\* C31: the label written at creation parses back to the version the
\* container was created with, whatever the version; so a call that has
\* provisioned a new container reads the configured version from it and
\* never ends in a version-drift error.
C31_LabelRoundTrip ==
    InCall
    => /\ from_str_ok(to_string(Desired))
       /\ from_str(to_string(Desired)) = Desired
       /\ \A c \in created :
              Exists(c) => /\ containers[c].label = to_string(Desired)
                           /\ get_container_postgres_version(c) = Desired
       /\ (created # {} /\ container_version # {})
          => container_version = {Desired}
       /\ (created # {} /\ pc = "done")
          => result.kind \notin {"upgrade", "downgrade"}

\* A call provisioned a container for version 9.11, read the label back
\* and went on to success.
C31_Witness ==
    /\ InCall /\ pc = "done" /\ result.ok
    /\ created = {container_id} /\ Desired = Ver(9, 11)
    /\ container_version = {Ver(9, 11)}
    /\ containers[container_id].label = <<9, -1, 1, 1>>

\* C32: a call that ends in a version-drift error has issued no create
\* call and no start call and has written nothing to the ledger; and the
\* only steps of a call that change the set or the running state of the
\* containers are its create and start calls, so it left the containers
\* and the ledger as they were.
C32_DriftErrorChangesNothing ==
    /\ []((InCall /\ pc = "done" /\ result.kind \in {"upgrade", "downgrade"})
          => /\ calls.create = 0 /\ calls.start = 0
             /\ calls.save = 0 /\ calls.saved = 0
             /\ created = {}
             /\ file = fileAtBegin
             /\ calls.version = 1 /\ calls.running = 0)
    /\ [][(containers' # containers /\ calls' # calls)
          => \/ calls'.create = calls.create + 1
             \/ calls'.start = calls.start + 1]_vars
    /\ [][(file' # file /\ pc' # "idle")
          => calls'.save = calls.save + 1]_vars

\* The configuration was edited down to an older version: the call pulled
\* that image, found the recorded container and failed on its label.
C32_Witness ==
    /\ InCall /\ pc = "done" /\ result.kind = "downgrade"
    /\ calls.pull = 1 /\ calls.create = 0 /\ calls.start = 0
    /\ file = fileAtBegin /\ file.kind = "doc"
    /\ Exists(container_id)

\* C33: a create call is issued only by a call whose image check has
\* completed successfully, the image of the configured version being
\* present; a call whose image listing or pull failed ends with that
\* error having created and started nothing, inspected nothing and
\* written nothing to the ledger.
C33_CreateOnlyAfterImageEnsured ==
    /\ [][calls'.create = calls.create + 1
          => /\ pc = "create"
             /\ calls.list = 1
             /\ Desired \in images]_vars
    /\ []((InCall /\ pc \notin {"reconcile", "done"})
          => calls.list = 1 /\ Desired \in images)
    /\ []((InCall /\ pc = "done" /\ result.kind \in {"list_images", "download"})
          => /\ calls.create = 0 /\ calls.start = 0
             /\ calls.save = 0 /\ calls.saved = 0
             /\ created = {} /\ queried = {}
             /\ file = fileAtBegin)

\* The pull of a newly configured version failed for a project that had
\* been provisioned before.
C33_Witness ==
    /\ InCall /\ pc = "done" /\ result.kind = "download"
    /\ calls.pull = 1 /\ calls.create = 0
    /\ Desired \notin images
    /\ instance # {} /\ containers # EmptyMap

\* C34: two invocations reconcile two different projects, each has loaded
\* the ledger before the other saved, each has created a container and
\* completed its save: the ledger file then holds the records of both
\* projects.
C34_BothRecordsPersist ==
    (/\ project # {} /\ parked.project # {}
     /\ parked.project # project
     /\ fileAtBegin = AbsentFile /\ parked.fileAtBegin = AbsentFile
     /\ created # {} /\ parked.created # {}
     /\ calls.saved = 1 /\ parked.calls.saved = 1)
    => /\ file.kind = "doc"
       /\ Projects \subseteq DOMAIN file.instances

\* C35: a call that created container X, saved its record and then
\* exhausted the start attempts leaves the ledger file naming X for the
\* project; and a call that begins with such a record for the configured
\* version and finds X existing issues no create call, writes nothing to
\* the ledger, and makes its version check, running check and start
\* attempts on X and on no other container.
C35_RetryAfterExhaustionReusesContainer ==
    /\ [][(/\ InCall /\ pc = "done" /\ result.kind = "exhausted"
           /\ created # {} /\ calls.saved = 1 /\ pc' = "idle")
          => /\ file'.kind = "doc"
             /\ Name \in DOMAIN file'.instances
             /\ created = {file'.instances[Name].container_id}
             /\ file'.instances[Name].postgres_version = to_string(Desired)
             /\ containers' = containers]_vars
    /\ []((/\ InCall /\ instance # {} /\ Recorded \in verified
           /\ TheInstance.postgres_version = Desired)
          => /\ calls.create = 0 /\ calls.save = 0 /\ created = {}
             /\ file = fileAtBegin
             /\ queried \subseteq {Recorded}
             /\ pc \in Resolved => container_id = Recorded
             /\ calls.start > 0
                => /\ calls.version = 1 /\ calls.running = 1
                   /\ container_version = {Desired}
                   /\ Recorded \in queried)

\* A later call on the recorded container ran all its attempts on it.
C35_Witness ==
    /\ InCall /\ instance # {} /\ Recorded \in verified
    /\ TheInstance.postgres_version = Desired
    /\ pc = "done" /\ result.kind = "exhausted"
    /\ calls.start = MAX_RETRIES /\ calls.create = 0 /\ calls.save = 0
    /\ container_id = Recorded /\ Exists(Recorded)

\* C36: whatever port the ledger records, the allocator's window end
\* start + PORT_SEARCH_RANGE is computed without overflow: the allocator
\* does not panic, and it does not wrap around, so the window is not
\* empty and a bindable first port of the window is the port returned.
C36_WindowEndFitsU16 ==
    pc = "allocated"
    => /\ result.kind # "panic"
       /\ \A start \in get_highest_used_port(state) :
              bind_ok(start) => result = OkPort(start)

====
